---- MODULE Spec2Model ----
(***************************************************************************)
(* Genetic programming for symbolic regression                             *)
(* (src/algorithms/benchmark_classic.py).                                  *)
(*                                                                         *)
(* Two state machines share this module:                                   *)
(*   Spec    - execute_algorithm, the generational loop, one action per    *)
(*             statement group of the loop body;                           *)
(*   SpecFit - the three fitness functions applied to bounded trees and    *)
(*             datasets.                                                   *)
(* The DEAP operators the program registers (selTournament, cxOnePoint,    *)
(* mutUniform, staticLimit, HallOfFame) are written out as the library     *)
(* defines them.                                                           *)
(* Expression trees are DEAP PrimitiveTrees: a list of nodes in prefix     *)
(* order.  Individuals are objects on a heap, so that in-place changes and *)
(* shared references behave as they do in Python.                          *)
(***************************************************************************)
EXTENDS Integers, Sequences, FiniteSets, TLC

VARIABLES
    config,      \* algorithms.config: the parameters of the run
    pc,          \* position in execute_algorithm
    generation,  \* loop variable of line 40
    population,  \* list of references
    next_gen,    \* list of references
    halloffame,  \* list of references held by tools.HallOfFame(1)
    statistics,  \* list of records appended at line 79
    heap,        \* reference -> [tree, fit]
    fits,        \* line 53
    size,        \* line 54
    i,           \* position in the crossover loop / mutation loop
    evaluated,   \* every fitness value assigned at line 47 so far
    individual,  \* argument of the fitness function under SpecFit
    data,        \* argument of the fitness function under SpecFit
    metric,      \* which fitness function SpecFit applies
    result       \* its outcome

vars == <<config, pc, generation, population, next_gen, halloffame, statistics, heap,
          fits, size, i, evaluated, individual, data, metric, result>>

fitVars == <<individual, data, metric, result>>

(***************************************************************************)
(* The configurations followed (algorithms/config.py): an even and an odd  *)
(* population, one and two generations, a height limit of 1 and of 2.      *)
(***************************************************************************)
Configs ==
    { [size_population |-> 2, num_generations |-> 2, max_height |-> 1],
      [size_population |-> 3, num_generations |-> 1, max_height |-> 1],
      [size_population |-> 2, num_generations |-> 1, max_height |-> 2] }

\* tools.selTournament, tournsize=3 (line 213)
tournsize == 3

(***************************************************************************)
(* Numbers.  Python's true division yields a non-integer, so every fitness *)
(* value is kept as a fraction <<n, d>> in lowest terms with d > 0.        *)
(***************************************************************************)
Abs(n) == IF n < 0 THEN -n ELSE n

RECURSIVE Gcd(_, _)
Gcd(a, b) == IF b = 0 THEN a ELSE Gcd(b, a % b)

Frac(n, d) ==
    LET g == Gcd(Abs(n), d) IN <<n \div g, d \div g>>

Num(n) == <<n, 1>>

FracLess(a, b) == a[1] * b[2] < b[1] * a[2]

(***************************************************************************)
(* The primitive set (lines 190-199).  np.add, np.subtract and np.multiply *)
(* have arity 2; ARG0, ARG1 are the input features; "c1" is an ephemeral   *)
(* constant drawn with the value 1.  The protected division of             *)
(* utility.operators is left out: the trees followed do not draw it.       *)
(***************************************************************************)
Primitives == {"add", "subtract", "multiply"}

Arguments == <<"ARG0", "ARG1">>

arity(node) == IF node \in Primitives THEN 2 ELSE 0

TerminalValue(node, args) ==
    CASE node = "ARG0" -> args[1]
      [] node = "ARG1" -> args[2]
      [] node = "c1" -> 1

Apply(node, a, b) ==
    CASE node = "add" -> a + b
      [] node = "subtract" -> a - b
      [] node = "multiply" -> a * b

(***************************************************************************)
(* gp.PrimitiveTree.  Positions are 1-based here; a slice [b, e) is the    *)
(* pair <<b, e>>.                                                          *)
(***************************************************************************)
RECURSIVE SearchEnd(_, _, _)
SearchEnd(tree, end, total) ==
    IF total > 0
    THEN SearchEnd(tree, end + 1, total + arity(tree[end]) - 1)
    ELSE end

\* PrimitiveTree.searchSubtree(begin)
searchSubtree(tree, begin) ==
    <<begin, SearchEnd(tree, begin + 1, arity(tree[begin]))>>

\* tree[slice] = sub
SetSlice(tree, slice, sub) ==
    SubSeq(tree, 1, slice[1] - 1) \o sub \o SubSeq(tree, slice[2], Len(tree))

GetSlice(tree, slice) == SubSeq(tree, slice[1], slice[2] - 1)

RECURSIVE Repeat(_, _)
Repeat(x, n) == IF n = 0 THEN <<>> ELSE <<x>> \o Repeat(x, n - 1)

RECURSIVE HeightLoop(_, _, _, _)
HeightLoop(tree, k, stack, max_depth) ==
    IF k > Len(tree)
    THEN max_depth
    ELSE LET depth == stack[Len(stack)]
             rest == SubSeq(stack, 1, Len(stack) - 1)
         IN HeightLoop(tree, k + 1,
                       rest \o Repeat(depth + 1, arity(tree[k])),
                       IF depth > max_depth THEN depth ELSE max_depth)

\* PrimitiveTree.height
height(tree) == HeightLoop(tree, 1, <<0>>, 0)

(***************************************************************************)
(* gp.compile: the tree as a function of the features.                     *)
(***************************************************************************)
RECURSIVE compile(_, _)
compile(tree, args) ==
    IF arity(tree[1]) = 0
    THEN TerminalValue(tree[1], args)
    ELSE LET left == searchSubtree(tree, 2)
             right == searchSubtree(tree, left[2])
         IN Apply(tree[1], compile(GetSlice(tree, left), args),
                           compile(GetSlice(tree, right), args))

(***************************************************************************)
(* The fitness functions (lines 94-178).  A dataset is a DataFrame: its    *)
(* rows (values) and its shape <<rows, columns>>; the last column is the   *)
(* target.  The outcome of a call is a returned list or a raised           *)
(* exception.                                                              *)
(***************************************************************************)
Return(values) == [raised |-> "none", values |-> values]

Raise(exception) == [raised |-> exception, values |-> <<>>]

\* func(*(data.values[rows][0:data.shape[1]-1]))
pred(tree, d, rows) == compile(tree, SubSeq(d.values[rows], 1, d.shape[2] - 1))

\* data.values[rows][data.shape[1]-1]
real(d, rows) == d.values[rows][d.shape[2]]

\* The loop of lines 110-117: rows runs over range(data.shape[0]).
RECURSIVE TotalAbs(_, _, _, _)
TotalAbs(tree, d, rows, total_error) ==
    IF rows > d.shape[1]
    THEN total_error
    ELSE TotalAbs(tree, d, rows + 1,
                  total_error + Abs(real(d, rows) - pred(tree, d, rows)))

\* As TotalSquared, with "total_error = error" for "total_error += error".
RECURSIVE TotalSquaredLast(_, _, _, _)
TotalSquaredLast(tree, d, rows, total_error) ==
    IF rows > d.shape[1]
    THEN total_error
    ELSE LET error == real(d, rows) - pred(tree, d, rows)
         IN TotalSquaredLast(tree, d, rows + 1, error * error)

\* The loop of lines 139-146 and of lines 168-175.
RECURSIVE TotalSquared(_, _, _, _)
TotalSquared(tree, d, rows, total_error) ==
    IF rows > d.shape[1]
    THEN total_error
    ELSE LET error == real(d, rows) - pred(tree, d, rows)
         IN TotalSquared(tree, d, rows + 1, total_error + error * error)

fitness_function_ae(tree, d) ==
    Return(<<Num(TotalAbs(tree, d, 1, 0))>>)

fitness_function_sse(tree, d) ==
    Return(<<Num(TotalSquared(tree, d, 1, 0))>>)

\* total_error / data.shape[0]: dividing by zero raises ZeroDivisionError.
fitness_function_mse(tree, d) ==
    IF d.shape[1] = 0
    THEN Raise("ZeroDivisionError")
    ELSE Return(<<Frac(TotalSquared(tree, d, 1, 0), d.shape[1])>>)

(***************************************************************************)
(* Objects.  A reference names an object by where it was made: "p" a       *)
(* member of the population at the start of a generation, "c" a clone made *)
(* at line 58, "k" a deep copy kept by the height-limited mate, "m" one    *)
(* kept by the height-limited mutate; the number is the position in the    *)
(* list.  fit is fitness.values: <<>> when unset, <<v>> when set.          *)
(***************************************************************************)
Ref(kind, k) == <<kind, k>>

Object(tree, fit) == [tree |-> tree, fit |-> fit]

Range(seq) == {seq[k] : k \in DOMAIN seq}

\* Objects that nothing refers to are gone.
Collect(h, live) == [r \in live |-> h[r]]

\* config.training_data: samples of y = 2x + 1.
training_data == [values |-> << <<1, 3>>, <<2, 5>> >>, shape |-> <<2, 2>>]

\* toolbox.evaluate (line 214)
evaluate(tree) == fitness_function_mse(tree, training_data)

\* Trees toolbox.population can draw: gp.genHalfAndHalf with min_=1, max_=2.
InitTrees ==
    { <<"add", "ARG0", "c1">>,
      <<"add", "ARG0", "ARG0">>,
      <<"add", "add", "ARG0", "ARG0", "ARG0">> }

\* Subtrees toolbox.expr_mut can draw: gp.genFull with min_=0, max_=2.
ExprMut ==
    { <<"ARG0">>,
      <<"add", "ARG0", "c1">> }

\* The most primitives a tree of the model has; a tree of n primitives of
\* arity 2 has 2n + 1 nodes.
MaxPrimitives == 3

MaxTreeLen == 2 * MaxPrimitives + 1

(***************************************************************************)
(* base.Fitness with weights (-1.0,): a fitness is greater when its value  *)
(* is smaller.                                                             *)
(***************************************************************************)
FitnessGreater(a, b) == FracLess(a[1], b[1])

(***************************************************************************)
(* tools.selTournament: each of the k winners is the best of tournsize     *)
(* aspirants drawn with replacement, the first drawn among equals.         *)
(***************************************************************************)
RECURSIVE MaxAspirant(_, _, _, _)
MaxAspirant(h, aspirants, k, best) ==
    IF k > Len(aspirants)
    THEN best
    ELSE MaxAspirant(h, aspirants, k + 1,
                     IF FitnessGreater(h[aspirants[k]].fit, h[best].fit)
                     THEN aspirants[k] ELSE best)

selTournament(h, individuals, chosen) ==
    \A k \in DOMAIN chosen :
        \E draws \in [1..tournsize -> DOMAIN individuals] :
            LET aspirants == [j \in 1..tournsize |-> individuals[draws[j]]]
            IN chosen[k] = MaxAspirant(h, aspirants, 2, aspirants[1])

(***************************************************************************)
(* tools.HallOfFame(1).update: an individual enters when its fitness is    *)
(* greater than the worst member's and no member has the same tree; the    *)
(* hall keeps a deep copy.  The hall is given here as a list of objects.   *)
(***************************************************************************)
HofInsert(hof, obj) == <<obj>>

RECURSIVE HofLoop(_, _, _)
HofLoop(hof, inds, k) ==
    IF k > Len(inds)
    THEN hof
    ELSE LET ind == inds[k]
             enters == /\ \/ FitnessGreater(ind.fit, hof[Len(hof)].fit)
                          \/ Len(hof) < 1
                       /\ \A j \in DOMAIN hof : hof[j].tree # ind.tree
         IN HofLoop(IF enters THEN HofInsert(hof, ind) ELSE hof, inds, k + 1)

\* As HofUpdate, the hall emptied before every update.
HofUpdateFresh(hof, inds) == HofLoop(HofInsert(<<>>, inds[1]), inds, 1)

HofUpdate(hof, inds) ==
    HofLoop(IF Len(hof) = 0 THEN HofInsert(hof, inds[1]) ELSE hof, inds, 1)

(***************************************************************************)
(* gp.cxOnePoint: swaps one subtree of each parent, never the root; trees  *)
(* of a single node are returned as they are.  index1 and index2 are the   *)
(* random draws (1-based positions).                                       *)
(***************************************************************************)
cxOnePoint(ind1, ind2, index1, index2) ==
    IF Len(ind1) < 2 \/ Len(ind2) < 2
    THEN <<ind1, ind2>>
    ELSE LET slice1 == searchSubtree(ind1, index1)
             slice2 == searchSubtree(ind2, index2)
         IN <<SetSlice(ind1, slice1, GetSlice(ind2, slice2)),
              SetSlice(ind2, slice2, GetSlice(ind1, slice1))>>

CxIndices(tree) == IF Len(tree) < 2 THEN {2} ELSE 2..Len(tree)

(***************************************************************************)
(* gp.mutUniform: the subtree at a random position is replaced by a new    *)
(* expression.                                                             *)
(***************************************************************************)
mutUniform(tree, index, expr) == SetSlice(tree, searchSubtree(tree, index), expr)

(***************************************************************************)
(* gp.staticLimit(key=height, max_value=max_height): the wrapper returns   *)
(* the operator's outputs, each output that is too high replaced by a      *)
(* random choice among the copies kept of the inputs.  h is the heap after *)
(* the operator ran, new_inds its outputs, keep_inds the copies, choice    *)
(* the random draws.                                                       *)
(***************************************************************************)
staticLimit(h, new_inds, keep_inds, choice, max_value) ==
    [j \in DOMAIN new_inds |->
        IF height(h[new_inds[j]].tree) > max_value
        THEN keep_inds[choice[j]]
        ELSE new_inds[j]]

(***************************************************************************)
(* execute_algorithm (lines 24-82).                                        *)
(***************************************************************************)
FitIdle ==
    /\ individual = <<>>
    /\ data = [values |-> <<>>, shape |-> <<0, 0>>]
    /\ metric = "none"
    /\ result = Return(<<>>)

\* toolbox.population(n): n new individuals, no fitness yet.
InitPopulation(n, trees) ==
    [r \in {Ref("p", k) : k \in 1..n} |-> Object(trees[r[2]], <<>>)]

\* Lines 35-37.  The runs followed start within the height limit.
Init ==
    /\ config \in Configs
    /\ pc = "evaluate"
    /\ generation = 0
    /\ population = [k \in 1..config.size_population |-> Ref("p", k)]
    /\ \E trees \in [1..config.size_population ->
                         {t \in InitTrees : height(t) <= config.max_height}] :
           heap = InitPopulation(config.size_population, trees)
    /\ next_gen = <<>>
    /\ halloffame = <<>>
    /\ statistics = <<>>
    /\ fits = <<>>
    /\ size = <<>>
    /\ i = 0
    /\ evaluated = <<>>
    /\ FitIdle

Live(pop, nxt) == Range(pop) \cup Range(nxt)

Best(a, b) == IF a = <<>> \/ FitnessGreater(b, a) THEN b ELSE a

RECURSIVE BestOf(_, _, _)
BestOf(values, k, best) ==
    IF k > Len(values) THEN best ELSE BestOf(values, k + 1, Best(best, values[k]))

\* As Fitnesses, the fitness list in the reverse order of the population.
FitnessesReversed(h, pop) ==
    [k \in DOMAIN pop |-> evaluate(h[pop[Len(pop) + 1 - k]].tree).values]

\* list(map(toolbox.evaluate, population))
Fitnesses(h, pop) == [k \in DOMAIN pop |-> evaluate(h[pop[k]].tree).values]

\* for individual, fitness in zip(...): individual.fitness.values = fitness
AssignFitness(h, pop, fitness) ==
    [r \in DOMAIN h |->
        IF r \in Range(pop)
        THEN [h[r] EXCEPT !.fit =
                 fitness[CHOOSE k \in DOMAIN pop :
                            pop[k] = r /\ \A j \in DOMAIN pop : pop[j] = r => j <= k]]
        ELSE h[r]]

\* Lines 46-47: every individual of the population gets the fitness of its tree.
Evaluate ==
    /\ pc = "evaluate"
    /\ heap' = AssignFitness(heap, population, Fitnesses(heap, population))
    /\ evaluated' = BestOf(Fitnesses(heap, population), 1, evaluated)
    /\ pc' = "update"
    /\ UNCHANGED <<config, generation, population, next_gen, halloffame,
                   statistics, fits, size, i>>
    /\ UNCHANGED fitVars

\* Line 50.
Update ==
    /\ pc = "update"
    /\ halloffame' = HofUpdate(halloffame,
                               [k \in DOMAIN population |-> heap[population[k]]])
    /\ pc' = "select"
    /\ UNCHANGED <<config, generation, population, next_gen, statistics, heap,
                   fits, size, i, evaluated>>
    /\ UNCHANGED fitVars

\* list(map(toolbox.clone, next_gen)): a deep copy of each selected individual.
Clones(h, pop, chosen) ==
    [r \in Range(pop) \cup {Ref("c", k) : k \in DOMAIN chosen} |->
        IF r \in Range(pop) THEN h[r] ELSE h[chosen[r[2]]]]

\* Lines 53-58: the statistics of the population, the tournament, the clones.
Select ==
    /\ pc = "select"
    /\ fits' = [k \in DOMAIN population |-> heap[population[k]].fit[1]]
    /\ size' = [k \in DOMAIN population |-> Len(heap[population[k]].tree)]
    /\ \E chosen \in [1..config.size_population -> Range(population)] :
           /\ selTournament(heap, population, chosen)
           /\ next_gen' = [k \in DOMAIN chosen |-> Ref("c", k)]
           /\ heap' = Clones(heap, population, chosen)
    /\ i' = 1
    /\ pc' = IF 1 < config.size_population THEN "mate" ELSE "mutate"
    /\ UNCHANGED <<config, generation, population, halloffame, statistics,
                   evaluated>>
    /\ UNCHANGED fitVars

\* After the pair at i: the next value of range(1, size_population, 2), or
\* the mutation loop from the first offspring.
AfterPair ==
    IF i + 2 < config.size_population
    THEN pc' = "mate" /\ i' = i + 2
    ELSE pc' = "mutate" /\ i' = 1

\* Line 62, the draw is not below prob_crossover.
NoMate ==
    /\ pc = "mate"
    /\ AfterPair
    /\ UNCHANGED <<config, generation, population, next_gen, halloffame,
                   statistics, heap, fits, size, evaluated>>
    /\ UNCHANGED fitVars

\* As DelFitness, nothing deleted.
DelFitnessMissing(h, refs) == h

\* del individual.fitness.values, for the objects in refs.
DelFitness(h, refs) ==
    [r \in DOMAIN h |-> IF r \in refs THEN [h[r] EXCEPT !.fit = <<>>] ELSE h[r]]

\* copy.deepcopy of the objects at from, under the new references to.
DeepCopy(h, from, to) ==
    [r \in DOMAIN h \cup Range(to) |->
        IF r \in Range(to)
        THEN h[from[CHOOSE j \in DOMAIN to : to[j] = r]]
        ELSE h[r]]

\* toolbox.mate(ind1, ind2) after line 220: the heap and the returned list.
\* gp.cxOnePoint changes ind1 and ind2 in place and returns them.
mate(h, ind1, ind2, keep_inds, index1, index2, choice, max_value) ==
    LET kept == DeepCopy(h, <<ind1, ind2>>, keep_inds)
        children == cxOnePoint(h[ind1].tree, h[ind2].tree, index1, index2)
        crossed == [kept EXCEPT ![ind1].tree = children[1],
                                ![ind2].tree = children[2]]
    IN [heap |-> crossed,
        returned |-> staticLimit(crossed, <<ind1, ind2>>, keep_inds, choice,
                                 max_value)]

\* toolbox.mutate(mutant) after line 221: the heap and the returned list.
\* gp.mutUniform changes the individual in place and returns it.
mutate(h, mutant, keep_inds, index, expr, max_value) ==
    LET kept == DeepCopy(h, <<mutant>>, keep_inds)
        mutated == [kept EXCEPT ![mutant].tree =
                       mutUniform(h[mutant].tree, index, expr)]
    IN [heap |-> mutated,
        returned |-> staticLimit(mutated, <<mutant>>, keep_inds, <<1>>,
                                 max_value)]

\* Lines 62-65: the pair (next_gen[i - 1], next_gen[i]) is mated, the result
\* is assigned back and both fitnesses are deleted.
MateWith(index1, index2, choice) ==
    LET call == mate(heap, next_gen[i], next_gen[i + 1],
                     <<Ref("k", i), Ref("k", i + 1)>>,
                     index1, index2, choice, config.max_height)
        assigned == [next_gen EXCEPT ![i] = call.returned[1],
                                     ![i + 1] = call.returned[2]]
    IN /\ \A r \in {next_gen[i], next_gen[i + 1]} :
              Len(call.heap[r].tree) <= MaxTreeLen
       /\ next_gen' = assigned
       /\ heap' = Collect(DelFitness(call.heap, {assigned[i], assigned[i + 1]}),
                          Live(population, assigned))

Mate ==
    /\ pc = "mate"
    /\ \E index1 \in CxIndices(heap[next_gen[i]].tree),
          index2 \in CxIndices(heap[next_gen[i + 1]].tree),
          choice \in [1..2 -> 1..2] :
           MateWith(index1, index2, choice)
    /\ AfterPair
    /\ UNCHANGED <<config, generation, population, halloffame, statistics,
                   fits, size, evaluated>>
    /\ UNCHANGED fitVars

\* After the mutant at i: the next offspring, or line 74.
AfterMutant ==
    IF i < Len(next_gen)
    THEN pc' = "mutate" /\ i' = i + 1
    ELSE pc' = "replace" /\ i' = 0

\* Line 69, the draw is not below prob_mutation.
NoMutate ==
    /\ pc = "mutate"
    /\ AfterMutant
    /\ UNCHANGED <<config, generation, population, next_gen, halloffame,
                   statistics, heap, fits, size, evaluated>>
    /\ UNCHANGED fitVars

\* Lines 69-71: toolbox.mutate(mutant) is a statement, so the returned list
\* is dropped and next_gen keeps the mutant; its fitness is deleted.
MutateWith(index, expr) ==
    LET mutant == next_gen[i]
        call == mutate(heap, mutant, <<Ref("m", i)>>, index, expr,
                       config.max_height)
    IN /\ Len(call.heap[mutant].tree) <= MaxTreeLen
       /\ next_gen' = next_gen
       /\ heap' = Collect(DelFitness(call.heap, {mutant}),
                          Live(population, next_gen))

Mutate ==
    /\ pc = "mutate"
    /\ \E index \in 1..Len(heap[next_gen[i]].tree), expr \in ExprMut :
           MutateWith(index, expr)
    /\ AfterMutant
    /\ UNCHANGED <<config, generation, population, halloffame, statistics,
                   fits, size, evaluated>>
    /\ UNCHANGED fitVars

\* The objects of nxt under the references "p": the object first found at
\* position k becomes Ref("p", k).  Only the names change.
First(nxt, k) == CHOOSE j \in DOMAIN nxt :
                     nxt[j] = nxt[k] /\ \A l \in DOMAIN nxt : nxt[l] = nxt[k] => j <= l

Renamed(nxt) == [k \in DOMAIN nxt |-> Ref("p", First(nxt, k))]

\* As Replace, with population.extend(next_gen) for population[:] = next_gen.
ReplaceExtend ==
    /\ pc = "replace"
    /\ population' = population \o next_gen
    /\ pc' = "append"
    /\ UNCHANGED <<config, generation, next_gen, halloffame, statistics, heap,
                   fits, size, i, evaluated>>
    /\ UNCHANGED fitVars

\* Line 74: population[:] = next_gen.  The old individuals are gone;
\* population and next_gen hold the same objects.
Replace ==
    /\ pc = "replace"
    /\ population' = Renamed(next_gen)
    /\ next_gen' = Renamed(next_gen)
    /\ heap' = [r \in Range(Renamed(next_gen)) |-> heap[next_gen[r[2]]]]
    /\ pc' = "append"
    /\ UNCHANGED <<config, generation, halloffame, statistics, fits, size, i,
                   evaluated>>
    /\ UNCHANGED fitVars

\* utility.evaluate.evaluate_population: the record of one generation.
evaluate_population(g, f, s, best) ==
    [generation |-> g, fits |-> f, size |-> s, best |-> best]

\* As AppendStatistics, the loop left as soon as the best fitness is
\* at most 1.
AppendStatisticsEarlyStop ==
    /\ pc = "append"
    /\ statistics' = Append(statistics,
                            evaluate_population(generation, fits, size, halloffame[1]))
    /\ generation' = generation + 1
    /\ pc' = IF /\ generation + 1 < config.num_generations
                /\ halloffame[1].fit[1][1] > halloffame[1].fit[1][2]
             THEN "evaluate" ELSE "return"
    /\ UNCHANGED <<config, population, next_gen, halloffame, heap, fits, size,
                   i, evaluated>>
    /\ UNCHANGED fitVars

\* Lines 79-80, then line 40 again: the next generation if range has one.
AppendStatistics ==
    /\ pc = "append"
    /\ statistics' = Append(statistics,
                            evaluate_population(generation, fits, size, halloffame[1]))
    /\ generation' = generation + 1
    /\ pc' = IF generation + 1 < config.num_generations THEN "evaluate" ELSE "return"
    /\ UNCHANGED <<config, population, next_gen, halloffame, heap, fits, size,
                   i, evaluated>>
    /\ UNCHANGED fitVars

\* Line 82.
ReturnResults ==
    /\ pc = "return"
    /\ pc' = "done"
    /\ UNCHANGED <<config, generation, population, next_gen, halloffame,
                   statistics, heap, fits, size, i, evaluated>>
    /\ UNCHANGED fitVars

Next ==
    \/ Evaluate
    \/ Update
    \/ Select
    \/ NoMate
    \/ Mate
    \/ NoMutate
    \/ Mutate
    \/ Replace
    \/ AppendStatistics
    \/ ReturnResults

Spec == Init /\ [][Next]_vars

(***************************************************************************)
(* The fitness functions on their own: a tree and a dataset are drawn, one *)
(* of the three functions is called, its outcome is kept in result.        *)
(***************************************************************************)
\* The most rows a dataset of SpecFit has.
MaxRows == 2

FeatureValues == {1, 2}

TargetValues == {2, 3, 4}

\* Rows of ncols columns: ncols - 1 features and the target.
Rows(ncols) ==
    {features \o <<target>> :
        features \in [1..(ncols - 1) -> FeatureValues], target \in TargetValues}

Frames(ncols) ==
    {[values |-> v, shape |-> <<n, ncols>>] :
        v \in UNION {[1..n -> Rows(ncols)] : n \in 0..MaxRows}, n \in 0..MaxRows}

\* Datasets of one feature and of two, of 0..MaxRows rows.
FitData ==
    {d \in Frames(2) \cup Frames(3) : Len(d.values) = d.shape[1]}

\* The terminals of a primitive set of nargs features, with one constant.
Terminals(nargs) == {Arguments[j] : j \in 1..nargs} \cup {"c1"}

\* Trees of at most one primitive over nargs features.
FitTrees(nargs) ==
    {<<t>> : t \in Terminals(nargs)}
    \cup {<<f, a, b>> : f \in Primitives, a \in Terminals(nargs), b \in Terminals(nargs)}

LoopIdle ==
    /\ config = [size_population |-> 0, num_generations |-> 0, max_height |-> 0]
    /\ generation = 0
    /\ population = <<>>
    /\ next_gen = <<>>
    /\ halloffame = <<>>
    /\ statistics = <<>>
    /\ heap = <<>>
    /\ fits = <<>>
    /\ size = <<>>
    /\ i = 0
    /\ evaluated = <<>>

InitFit ==
    /\ pc = "call"
    /\ data \in FitData
    /\ individual \in FitTrees(data.shape[2] - 1)
    /\ metric \in {"ae", "sse", "mse"}
    /\ result = Return(<<>>)
    /\ LoopIdle

Returned(outcome) ==
    /\ result' = outcome
    /\ pc' = "returned"
    /\ UNCHANGED <<config, generation, population, next_gen, halloffame,
                   statistics, heap, fits, size, i, evaluated>>
    /\ UNCHANGED <<individual, data, metric>>

CallAe ==
    /\ pc = "call"
    /\ metric = "ae"
    /\ Returned(fitness_function_ae(individual, data))

CallSse ==
    /\ pc = "call"
    /\ metric = "sse"
    /\ Returned(fitness_function_sse(individual, data))

CallMse ==
    /\ pc = "call"
    /\ metric = "mse"
    /\ Returned(fitness_function_mse(individual, data))

NextFit ==
    \/ CallAe
    \/ CallSse
    \/ CallMse

SpecFit == InitFit /\ [][NextFit]_vars

(***************************************************************************)
(* Properties.                                                             *)
(***************************************************************************)
Tree(r) == heap[r].tree

Fit(r) == heap[r].fit

\* C1: every individual of the population is at most max_height high, at
\* the start and after every replacement of the population.
HeightInvariant ==
    \A k \in DOMAIN population : height(Tree(population[k])) <= config.max_height

\* C2: a height-limited mate or mutate whose output is too high leaves, at
\* the positions it worked on, the trees that were there before the step.
RevertCorrectness ==
    [][/\ \A index1 \in 2..MaxTreeLen, index2 \in 2..MaxTreeLen, choice \in [1..2 -> 1..2] :
             ( /\ pc = "mate"
               /\ index1 \in CxIndices(Tree(next_gen[i]))
               /\ index2 \in CxIndices(Tree(next_gen[i + 1]))
               /\ MateWith(index1, index2, choice)
               /\ \E j \in 1..2 :
                      height(cxOnePoint(Tree(next_gen[i]), Tree(next_gen[i + 1]),
                                        index1, index2)[j]) > config.max_height )
             => /\ heap'[next_gen'[i]].tree = Tree(next_gen[i])
                /\ heap'[next_gen'[i + 1]].tree = Tree(next_gen[i + 1])
       /\ \A index \in 1..MaxTreeLen, expr \in ExprMut :
             ( /\ pc = "mutate"
               /\ index <= Len(Tree(next_gen[i]))
               /\ MutateWith(index, expr)
               /\ height(mutUniform(Tree(next_gen[i]), index, expr)) > config.max_height )
             => heap'[next_gen'[i]].tree = Tree(next_gen[i])
      ]_vars

\* C3: when the population is used for the hall of fame, the statistics and
\* the tournament, every individual has the fitness of its current tree.
FitnessValidity ==
    pc \in {"update", "select"} =>
        \A k \in DOMAIN population :
            /\ Fit(population[k]) # <<>>
            /\ Fit(population[k]) = evaluate(Tree(population[k])).values

\* An individual changed by variation takes part with its new fitness.
FitnessValidityWitness ==
    /\ pc = "select"
    /\ generation = 1
    /\ \E k \in DOMAIN population :
           /\ Tree(population[k]) \notin InitTrees
           /\ Fit(population[k]) = evaluate(Tree(population[k])).values

\* C4: after every update the hall of fame holds the best fitness evaluated
\* so far, and the best fitness recorded per generation never gets worse.
ArchiveMonotonicity ==
    /\ pc \in {"select", "mate", "mutate", "replace", "append"} =>
           /\ Len(halloffame) = 1
           /\ halloffame[1].fit = evaluated
    /\ \A j \in DOMAIN statistics, k \in DOMAIN statistics :
           j < k => ~ FitnessGreater(statistics[j].best.fit, statistics[k].best.fit)

\* The second generation holds nothing as good as the hall of fame.
ArchiveMonotonicityWitness ==
    /\ pc = "select"
    /\ generation = 1
    /\ \A k \in DOMAIN population :
           FitnessGreater(halloffame[1].fit, Fit(population[k]))

\* C5: on a dataset of no rows every fitness function ends in an error.
EmptyDatasetFails ==
    (pc = "returned" /\ data.shape[1] = 0) => result.raised # "none"

\* C6: the population has size_population individuals, at the start and
\* after every replacement.
PopulationSize ==
    pc \in {"evaluate", "update", "select", "mate", "mutate", "replace",
            "append", "return", "done"} =>
        Len(population) = config.size_population

\* An odd population replaced by offspring that were mated and mutated.
PopulationSizeWitness ==
    /\ pc = "append"
    /\ config.size_population = 3
    /\ Len(population) = 3
    /\ \A k \in DOMAIN population : Fit(population[k]) = <<>>

\* The number of steps of one generation: evaluate, update, select, the
\* pairs, the mutants, replace, append.
StepsPerGeneration == 6 + 2 * config.size_population

\* How far the run is: steps taken if every loop ran to its last index.
Progress ==
    generation * StepsPerGeneration
    + CASE pc = "evaluate" -> 0
        [] pc = "update" -> 1
        [] pc = "select" -> 2
        [] pc = "mate" -> 3 + i
        [] pc = "mutate" -> 3 + config.size_population + i
        [] pc = "replace" -> 4 + 2 * config.size_population
        [] pc = "append" -> 5 + 2 * config.size_population
        [] pc = "return" -> 0
        [] pc = "done" -> 1

\* Before the return some statement can always run: the evaluation (which
\* fails only on a dataset of no rows) or the statement pc is at; in the
\* crossover and mutation loops the draw may always fall above the
\* probability.
NotStuck ==
    \/ pc = "done"
    \/ pc = "evaluate" /\ training_data.shape[1] > 0
    \/ ENABLED (Update \/ Select \/ NoMate \/ NoMutate \/ Replace
                   \/ AppendStatistics \/ ReturnResults)

\* C7: the loop ends after num_generations iterations (every step moves the
\* run forward, the run is never stuck before the return, and it is at most
\* num_generations generations long), with one record per generation in
\* increasing order, each appended after the replacement.
Termination ==
    /\ []NotStuck
    /\ [](Progress <= config.num_generations * StepsPerGeneration + 1)
    /\ [][Progress' > Progress]_vars
    /\ [](pc = "done" =>
            /\ generation = config.num_generations
            /\ Len(statistics) = config.num_generations
            /\ \A k \in DOMAIN statistics : statistics[k].generation = k - 1)
    /\ [][statistics' # statistics =>
            /\ pc = "append"
            /\ population = next_gen
            /\ Len(statistics') = Len(statistics) + 1
            /\ statistics'[Len(statistics')].generation = generation]_vars

TerminationWitness ==
    /\ pc = "done"
    /\ config.num_generations = 2
    /\ Len(statistics) = 2

\* The errors of the rows, from the last row to the first.
RECURSIVE SumSeq(_, _)
SumSeq(seq, n) == IF n = 0 THEN 0 ELSE seq[n] + SumSeq(seq, n - 1)

RowErrors ==
    [k \in DOMAIN data.values |->
        LET row == data.values[k]
        IN row[Len(row)] - compile(individual, SubSeq(row, 1, Len(row) - 1))]

\* C8: on a dataset of at least one row the three functions return the sum
\* of the absolute errors, the sum of the squared errors, and that sum
\* divided by the number of rows.
FitnessCorrectness ==
    (pc = "returned" /\ Len(data.values) > 0) =>
        LET n == Len(data.values)
            ae == SumSeq([k \in 1..n |-> Abs(RowErrors[k])], n)
            sse == SumSeq([k \in 1..n |-> RowErrors[k] * RowErrors[k]], n)
        IN /\ result.raised = "none"
           /\ Len(result.values) = 1
           /\ metric = "ae" => result.values[1] = <<ae, 1>>
           /\ metric = "sse" => result.values[1] = <<sse, 1>>
           /\ metric = "mse" => result.values[1][1] * n = sse * result.values[1][2]
           /\ (individual = <<"add", "ARG0", "c1">> /\ data.values = << <<1, 3>> >>)
                  => result.values[1] = <<1, 1>>
           /\ (individual = <<"ARG0">> /\ data.values = << <<1, 2>>, <<2, 4>> >>)
                  => result.values[1] = IF metric = "mse" THEN <<5, 2>>
                                        ELSE IF metric = "sse" THEN <<5, 1>>
                                        ELSE <<3, 1>>

\* f(x) = x on [(1, 2), (2, 4)] under MSE.
FitnessCorrectnessWitness ==
    /\ pc = "returned"
    /\ metric = "mse"
    /\ individual = <<"ARG0">>
    /\ data.values = << <<1, 2>>, <<2, 4>> >>
    /\ result.values = << <<5, 2>> >>

\* C9: between the clone step and the replacement the offspring are
\* different objects, none of them a member of the population.  (The hall
\* of fame holds deep copies of its own, kept here by value.)
NoAliasing ==
    pc \in {"mate", "mutate", "replace"} =>
        /\ \A j \in DOMAIN next_gen, k \in DOMAIN next_gen :
               j # k => next_gen[j] # next_gen[k]
        /\ Range(next_gen) \cap Range(population) = {}

\* C10: at the return every individual of the population has the fitness of
\* its tree and none is better than the hall of fame.
FinalPopulationCovered ==
    pc = "done" =>
        \A k \in DOMAIN population :
            /\ Fit(population[k]) # <<>>
            /\ Fit(population[k]) = evaluate(Tree(population[k])).values
            /\ ~ FitnessGreater(Fit(population[k]), halloffame[1].fit)

\* C10, amended: at the return an individual of the population has either
\* no fitness or the fitness of its tree, and then it is no better than the
\* hall of fame.
FinalPopulationPartlyCovered ==
    pc = "done" =>
        \A k \in DOMAIN population :
            \/ Fit(population[k]) = <<>>
            \/ /\ Fit(population[k]) = evaluate(Tree(population[k])).values
               /\ ~ FitnessGreater(Fit(population[k]), halloffame[1].fit)

\* A returned population of one offspring left as cloned and one changed.
FinalPopulationWitness ==
    /\ pc = "done"
    /\ \E k \in DOMAIN population : Fit(population[k]) = <<>>
    /\ \E k \in DOMAIN population : Fit(population[k]) # <<>>

====
